---- MODULE Spec2Model ----
(***************************************************************************)
(* Battery dispatch optimisation of the PV + BESS investor tool.           *)
(*                                                                         *)
(* The model follows OptimizationService.run_optimization                  *)
(* (backend/app/services/optimization_service.py) and its two kinds of     *)
(* callers: the direct callers (streamlit_app.py, tests/) that pass the    *)
(* power and the capacity only, and POST /api/optimize (backend/app/       *)
(* main.py) that also passes min_soc_percent and throughput_cost_eur_mwh.  *)
(*                                                                         *)
(* Units.  Powers are whole kW, energies whole kWh, prices whole EUR/MWh,  *)
(* money is in thousandths of a euro (price * kW * 1h), the reserved       *)
(* minimum state of charge is in percent of the capacity.  The solver's    *)
(* continuous variables are sampled on the grid of the flows for which     *)
(* efficiency * charge and discharge / efficiency are whole kWh; on that   *)
(* grid the arithmetic of the linear program is exact.                     *)
(***************************************************************************)
EXTENDS Integers, Sequences, FiniteSets

\* ------------------------------------------------------------------ bounds
\* longest generation or price series
MaxLen == 2
\* largest flow (kW) the solver's grid offers to the constraints
MaxFlowKw == 108
MaxPvCapacity == 1000

\* --------------------------------------------------------------- input sets
PvLevels == {0, 30}
PriceLevels == {0 - 50, 0 - 20, 0, 50, 120}
\* <<bess_power_mw, bess_capacity_mwh>> in kW and kWh
Batteries == {<<20, 8>>, <<20, 40>>, <<100, 0>>, <<0, 8>>, <<0 - 10, 8>>, <<20, 0 - 8>>}
MinSocPercents == {0, 10}
ThroughputCosts == {0, 50}
Callers == {"direct", "api"}

VARIABLES pv_df, price_data, bess_power_mw, bess_capacity_mwh,
          min_soc_percent, throughput_cost_eur_mwh, caller,
          pc, T, problem, result, error,
          baseline, call2, sweep,
          pv_capacity_mw, mode, smart_defaults,
          installed_solvers, solver

vars == <<pv_df, price_data, bess_power_mw, bess_capacity_mwh,
          min_soc_percent, throughput_cost_eur_mwh, caller,
          pc, T, problem, result, error,
          baseline, call2, sweep,
          pv_capacity_mw, mode, smart_defaults,
          installed_solvers, solver>>

sizing == <<pv_capacity_mw, mode, smart_defaults>>

others == <<baseline, call2, sweep, sizing, installed_solvers>>

inputs == <<pv_df, price_data, bess_power_mw, bess_capacity_mwh,
            min_soc_percent, throughput_cost_eur_mwh, caller>>

\* ------------------------------------------------------------------ helpers
Min(a, b) == IF a <= b THEN a ELSE b

SeqsUpTo(S, n) == UNION {[1..k -> S] : k \in 0..n}

RECURSIVE SumSeq(_)
SumSeq(s) == IF s = <<>> THEN 0 ELSE Head(s) + SumSeq(Tail(s))

MaxOf(S) == CHOOSE x \in S : \A y \in S : y <= x

\* ---------------------------------------------------------------- alignment
\* the last n entries of a series
AlignTail(s, n) == SubSeq(s, Len(s) - n + 1, Len(s))

\* pv_df.iloc[:T], price_data[:T]: the first n entries, in their order
Align(s, n) == SubSeq(s, 1, n)

\* pv_generation_mw = df['pv_power_kw'].values / 1000 of a horizon of n hours
PvGenerationMw(n) == Align(pv_df, n)

\* prices_eur_mwh = np.array([p['price'] for p in price_data[:T]])
PricesEurMwh(n) == Align(price_data, n)

\* ------------------------------------------------------ the linear program
\* efficiency = 0.90, in percent
EfficiencyPct == 90

\* energy that reaches the store when charging at c kW for one hour
Stored(c) == (EfficiencyPct * c) \div 100
\* energy taken from the store when discharging at d kW for one hour
Drawn(d) == (100 * d) \div EfficiencyPct

\* the sampled values of p_charge[t] and p_discharge[t] (nonneg=True)
ChargeLevels == {c \in 0..MaxFlowKw : (EfficiencyPct * c) % 100 = 0}
DischargeLevels == {d \in 0..MaxFlowKw : (100 * d) % EfficiencyPct = 0}

\* CONSTRAINT 1: soc[0] == 0
InitialSoc == 0

\* the balance without the conversion losses
EnergyBalanceLossless(s, c, d) == s + c - d

\* CONSTRAINT 2: soc[t+1] == soc[t] + efficiency*p_charge[t] - p_discharge[t]/efficiency
EnergyBalance(s, c, d) == s + Stored(c) - Drawn(d)

\* CONSTRAINT 3 and nonneg=True of soc
\* a store with no lower limit
SocLimitsUpperOnly(s) == s <= bess_capacity_mwh

SocLimits(s) == 0 <= s /\ s <= bess_capacity_mwh

\* the limit on the discharge only
PowerLimitsDischargeOnly(c, d) == d <= bess_power_mw

\* CONSTRAINTS 4 and 5
PowerLimits(c, d) == c <= bess_power_mw /\ d <= bess_power_mw

\* the balance with the battery flows exchanged
GridBalanceSwapped(g, c, d) == g + c - d

\* CONSTRAINT 6: p_grid[t] == pv_generation_mw[t] + p_discharge[t] - p_charge[t]
GridBalance(g, c, d) == g + d - c

\* the flows of one hour that keep the constraints, from state of charge s
HourChoices(s) ==
    {f \in ChargeLevels \X DischargeLevels :
        /\ PowerLimits(f[1], f[2])
        /\ SocLimits(EnergyBalance(s, f[1], f[2]))}

\* every assignment of hours t..n that keeps the constraints, from s
RECURSIVE SchedulesUpTo(_, _, _)
SchedulesUpTo(n, t, s) ==
    IF t > n THEN {<<>>}
    ELSE UNION {
           {<<f>> \o rest : rest \in SchedulesUpTo(n, t + 1, EnergyBalance(s, f[1], f[2]))}
           : f \in HourChoices(s)}

Schedules(t, s) == SchedulesUpTo(T, t, s)

\* the solutions of the constraints of a horizon of n hours
FeasibleFor(n) == IF SocLimits(InitialSoc) THEN SchedulesUpTo(n, 1, InitialSoc) ELSE {}

Feasible == FeasibleFor(T)

ChargeOf(x) == [t \in 1..Len(x) |-> x[t][1]]
DischargeOf(x) == [t \in 1..Len(x) |-> x[t][2]]

RECURSIVE SocFrom(_, _, _)
SocFrom(x, t, s) ==
    IF t > Len(x) THEN <<s>>
    ELSE <<s>> \o SocFrom(x, t + 1, EnergyBalance(s, x[t][1], x[t][2]))

SocOf(x) == SocFrom(x, 1, InitialSoc)

GridOf(x) ==
    LET pv == PvGenerationMw(Len(x))
    IN [t \in 1..Len(x) |-> GridBalance(pv[t], x[t][1], x[t][2])]

\* revenue = prices_eur_mwh @ p_grid
Revenue(grid) ==
    LET prices == PricesEurMwh(Len(grid))
    IN SumSeq([t \in 1..Len(grid) |-> prices[t] * grid[t]])

\* the objective with the sign of a minimisation
ObjectiveMinimized(x) == 0 - Revenue(GridOf(x))

\* objective = cp.Maximize(revenue)
Objective(x) == Revenue(GridOf(x))

\* the solutions problem.solve can return for a horizon of n hours
OptimalFor(n) ==
    LET all == FeasibleFor(n)
        best == MaxOf({Objective(x) : x \in all})
    IN {x \in all : Objective(x) = best}

Optimal == OptimalFor(T)

\* ------------------------------------------------------- result extraction
\* the rounded quotient num / den (den > 0), ties to even
RoundRatio(num, den) ==
    LET q == num \div den
        r == num % den
    IN IF 2 * r < den THEN q
       ELSE IF 2 * r > den THEN q + 1
       ELSE IF q % 2 = 0 THEN q ELSE q + 1

\* round(x, 2) of an amount in thousandths, in cents (ties to even)
RoundCents(m) ==
    LET q == m \div 10
        r == m % 10
    IN IF r < 5 THEN q
       ELSE IF r > 5 THEN q + 1
       ELSE IF q % 2 = 0 THEN q ELSE q + 1

\* df['net_revenue'] = df['revenue_from_export'] - df['cost_from_import']
Abs(a) == IF a < 0 THEN 0 - a ELSE a
RevenueFromExport(grid, price) == IF grid > 0 THEN grid * price ELSE 0

\* the import cost with the price taken as a magnitude
CostFromImportAbsPrice(grid, price) == IF grid < 0 THEN Abs(grid) * Abs(price) ELSE 0

CostFromImport(grid, price) == IF grid < 0 THEN Abs(grid) * price ELSE 0


\* export revenue and import cost added up
NetRevenuePlusCost(grid, price) == RevenueFromExport(grid, price) + CostFromImport(grid, price)

NetRevenue(grid, price) == RevenueFromExport(grid, price) - CostFromImport(grid, price)

\* (df[col] > 0.1).sum() of a column in whole kW
HoursAbove(col) == Cardinality({t \in 1..Len(col) : 10 * col[t] > 1})

\* df[df[flag]]['price_eur_mwh'].sum() over the hours with col > 0.1
PriceSumWhere(col, prices) ==
    SumSeq([t \in 1..Len(col) |-> IF 10 * col[t] > 1 THEN prices[t] ELSE 0])

\* utilization_percent = total_hours_active / len(df) * 100, rounded to one
\* decimal, in tenths of a percent
UtilizationPercent(charge, discharge) ==
    RoundRatio(1000 * (HoursAbove(charge) + HoursAbove(discharge)), Len(charge))

\* price_spread = avg_discharging_price - avg_charging_price as the fraction
\* <<numerator, denominator>>; an average over no hour is 0
PriceSpread(charge, discharge, prices) ==
    LET hc == HoursAbove(charge)
        hd == HoursAbove(discharge)
        cnum == IF hc > 0 THEN PriceSumWhere(charge, prices) ELSE 0
        cden == IF hc > 0 THEN hc ELSE 1
        dnum == IF hd > 0 THEN PriceSumWhere(discharge, prices) ELSE 0
        dden == IF hd > 0 THEN hd ELSE 1
    IN <<dnum * cden - cnum * dden, dden * cden>>

\* arbitrage_revenue_estimate = price_spread * total_discharge_mwh if
\* price_spread > 0 else 0, rounded to cents
ArbitrageRevenueEstimate(charge, discharge, prices) ==
    LET spread == PriceSpread(charge, discharge, prices)
    IN IF spread[1] > 0
       THEN RoundRatio(spread[1] * SumSeq(discharge), spread[2] * 10)
       ELSE 0

\* (df['price_eur_mwh'] < 0).sum()
NegativePriceHours(prices) == Cardinality({t \in 1..Len(prices) : prices[t] < 0})

\* the charge of the hours whose price is not negative
ChargeDuringNonNegPrice(charge, prices) ==
    SumSeq([t \in 1..Len(charge) |-> IF prices[t] >= 0 THEN charge[t] ELSE 0])

\* df[df['price_eur_mwh'] < 0]['bess_charge_kw'].sum(), 0 without such hours
ChargeDuringNegPrice(charge, prices) ==
    SumSeq([t \in 1..Len(charge) |-> IF prices[t] < 0 THEN charge[t] ELSE 0])

\* negative_price_savings = abs(actual_charge_during_neg_price / 1000 *
\* avg_negative_price) with the unweighted mean of the negative prices, 0
\* without a negative price; rounded to cents
NegativePriceSavings(charge, prices) ==
    LET hours == NegativePriceHours(prices)
        psum == SumSeq([t \in 1..Len(prices) |-> IF prices[t] < 0 THEN prices[t] ELSE 0])
    IN IF hours > 0
       THEN RoundRatio(Abs(ChargeDuringNegPrice(charge, prices) * psum), hours * 10)
       ELSE 0

NoProblem == [status |-> "none", p_charge |-> <<>>, p_discharge |-> <<>>,
              soc |-> <<>>, p_grid |-> <<>>, value |-> 0]

NoResult == [optimization_status |-> "none", pv_power_kw |-> <<>>,
             price_eur_mwh |-> <<>>, bess_charge_kw |-> <<>>,
             bess_discharge_kw |-> <<>>, soc_kwh |-> <<>>, net_grid_kw |-> <<>>,
             net_revenue |-> <<>>,
             total_revenue |-> 0, total_revenue_eur |-> 0,
             hours_charging |-> 0, hours_discharging |-> 0,
             battery_utilization_percent |-> 0,
             estimated_arbitrage_revenue |-> 0,
             negative_price_hours |-> 0,
             energy_charged_during_neg_prices_kwh |-> 0,
             estimated_savings |-> 0]

Solved(x) ==
    [status |-> "optimal", p_charge |-> ChargeOf(x), p_discharge |-> DischargeOf(x),
     soc |-> SocOf(x), p_grid |-> GridOf(x), value |-> Objective(x)]

Extract(p) ==
    LET n == Len(p.p_grid)
        prices == PricesEurMwh(n)
        net == [t \in 1..n |-> NetRevenue(p.p_grid[t], prices[t])]
    IN [optimization_status |-> p.status,
        pv_power_kw |-> PvGenerationMw(n),
        price_eur_mwh |-> prices,
        bess_charge_kw |-> p.p_charge,
        bess_discharge_kw |-> p.p_discharge,
        soc_kwh |-> SubSeq(p.soc, 1, n),
        net_grid_kw |-> p.p_grid,
        net_revenue |-> net,
        total_revenue |-> SumSeq(net),
        total_revenue_eur |-> RoundCents(SumSeq(net)),
        hours_charging |-> HoursAbove(p.p_charge),
        hours_discharging |-> HoursAbove(p.p_discharge),
        battery_utilization_percent |-> UtilizationPercent(p.p_charge, p.p_discharge),
        estimated_arbitrage_revenue |->
            ArbitrageRevenueEstimate(p.p_charge, p.p_discharge, prices),
        negative_price_hours |-> NegativePriceHours(prices),
        energy_charged_during_neg_prices_kwh |-> ChargeDuringNegPrice(p.p_charge, prices),
        estimated_savings |-> NegativePriceSavings(p.p_charge, prices)]

\* ------------------------------------------------------------------- errors
NoError == [type |-> "none", text |-> ""]

\* an error that hides what the solver said
RaisedGeneric(text) == [type |-> "ValueError", text |-> "optimization failed"]

\* raise ValueError(f"... Status: {problem.status} ...") and
\* raise ValueError(f"Optimization failed: {str(e)}")
Raised(text) == [type |-> "ValueError", text |-> text]

\* what a failing backend says
SolverExceptionText == "SolverError"

\* cp.Variable(0): cvxpy refuses an empty dimension
EmptyDimensionText == "Invalid dimensions (0,)"

\* ------------------------------------------------------ steps of one call
\* the local state of one call of run_optimization
NewCall == [pc |-> "unsolved", T |-> 0, problem |-> NoProblem,
            result |-> NoResult, error |-> NoError]

AlignedLength == Min(Len(pv_df), Len(price_data))

\* the caller's series after a call has taken its first T entries in place
TruncatedInPlace(s, n) == SubSeq(s, 1, n)

\* df = pv_df.iloc[:T].copy() and price_data[:T]: the call works on copies,
\* the caller's series stay as they are
KeptSeries(s, n) == s

\* STEP 1 to STEP 5 with T > 0
PrepareSteps(l) ==
    IF l.pc = "unsolved" /\ AlignedLength > 0
    THEN {[l EXCEPT !.T = AlignedLength, !.pc = "solving"]}
    ELSE {}

\* an empty horizon that goes on to the solver
PrepareEmptyProceeds(l) ==
    IF l.pc = "unsolved" /\ AlignedLength = 0
    THEN {[l EXCEPT !.T = 0, !.pc = "solving"]}
    ELSE {}

\* STEP 1 and STEP 2 with T = 0
PrepareEmptySteps(l) ==
    IF l.pc = "unsolved" /\ AlignedLength = 0
    THEN {[l EXCEPT !.T = 0, !.pc = "rejected",
                    !.error = [type |-> "ValueError", text |-> EmptyDimensionText]]}
    ELSE {}

\* STEP 6 to STEP 11 when problem.status == cp.OPTIMAL
SolveOptimalSteps(l) ==
    IF l.pc = "solving"
    THEN {[l EXCEPT !.pc = "accepted", !.problem = Solved(x),
                    !.result = Extract(Solved(x))] : x \in OptimalFor(l.T)}
    ELSE {}

\* a rejected solve that goes back to the solver
SolveInfeasibleRetries(l) ==
    IF l.pc = "solving" /\ FeasibleFor(l.T) = {} /\ l.problem.status = "none"
    THEN {[l EXCEPT !.problem = [NoProblem EXCEPT !.status = "infeasible"]]}
    ELSE IF l.pc = "solving" /\ FeasibleFor(l.T) = {}
    THEN {[l EXCEPT !.pc = "rejected", !.error = Raised("infeasible")]}
    ELSE {}

\* STEP 6 when the constraints have no solution
SolveInfeasibleSteps(l) ==
    IF l.pc = "solving" /\ FeasibleFor(l.T) = {}
    THEN {[l EXCEPT !.pc = "rejected",
                    !.problem = [NoProblem EXCEPT !.status = "infeasible"],
                    !.error = Raised("infeasible")]}
    ELSE {}

\* STEP 6 when the solver stops with reduced precision
SolveInaccurateSteps(l) ==
    IF l.pc = "solving" /\ FeasibleFor(l.T) # {}
    THEN {[l EXCEPT !.pc = "rejected",
                    !.problem = [NoProblem EXCEPT !.status = "optimal_inaccurate"],
                    !.error = Raised("optimal_inaccurate")]}
    ELSE {}

\* STEP 6 when problem.solve raises
SolveRaisesSteps(l) ==
    IF l.pc = "solving"
    THEN {[l EXCEPT !.pc = "rejected", !.error = Raised(SolverExceptionText)]}
    ELSE {}

\* ----------------------------------------------------------------- baseline
NoBaseline == [status |-> "none", total_revenue_eur |-> 0, total_generation_mwh |-> 0]

\* BaselineService.calculate_pv_baseline on series that start at the same hour
CalculatePvBaseline(pv, prices) ==
    LET n == IF Len(prices) = 0 THEN Len(pv) ELSE Min(Len(pv), Len(prices))
        price == [t \in 1..n |-> IF Len(prices) = 0 THEN 0 ELSE prices[t]]
        revenue == [t \in 1..n |-> pv[t] * price[t]]
        generation == SumSeq(SubSeq(pv, 1, n))
    IN IF n = 0 THEN [NoBaseline EXCEPT !.status = "ValueError"]
       ELSE IF generation = 0 THEN [NoBaseline EXCEPT !.status = "ZeroDivisionError"]
       ELSE [status |-> "ok",
             total_revenue_eur |-> RoundCents(SumSeq(revenue)),
             total_generation_mwh |-> RoundCents(generation)]

\* ------------------------------------------------------------- auto sizing
\* PV capacities in tenths of a MW, powers and capacities in hundredths of a
\* MW and of a MWh, durations in hours
PvCapacities == 1..MaxPvCapacity
Modes == {"conservative", "moderate", "aggressive", "Aggressive", "balanced"}

\* mode.lower()
Lower(m) == IF m = "Aggressive" THEN "aggressive" ELSE m

\* POWER_RATIO_CONSERVATIVE, POWER_RATIO_MODERATE, POWER_RATIO_AGGRESSIVE, in percent
PowerRatio(m) ==
    IF Lower(m) = "conservative" THEN 20
    ELSE IF Lower(m) = "aggressive" THEN 60
    ELSE 40

\* DURATION_SHORT, DURATION_MEDIUM, DURATION_LONG
Duration(m) ==
    IF Lower(m) = "conservative" THEN 2
    ELSE IF Lower(m) = "aggressive" THEN 6
    ELSE 4

\* round(x * 2) / 2 of an amount in hundredths: the nearest half unit
RoundToHalf(x100) == 50 * RoundRatio(x100, 50)

NoDefaults == [power_mw |-> 0, duration_hours |-> 0, capacity_mwh |-> 0,
               mode |-> "none", power_ratio |-> 0]

\* AutoSizingService.calculate_smart_defaults(pv_capacity_mw, mode)
CalculateSmartDefaultsOf(pv, m) ==
    LET power == (pv * 10 * PowerRatio(m)) \div 100
        capacity == power * Duration(m)
    IN [power_mw |-> RoundToHalf(power),
        duration_hours |-> Duration(m),
        capacity_mwh |-> RoundToHalf(capacity),
        mode |-> m,
        power_ratio |-> PowerRatio(m)]

\* -------------------------------------------------------------- the machine
NoSweep == [run |-> 1, cost |-> 0, instance |-> <<>>, x |-> <<>>, cycled |-> 0]

Absent == [NewCall EXCEPT !.pc = "absent"]

Locals == [pc |-> pc, T |-> T, problem |-> problem, result |-> result, error |-> error]

Become(l) ==
    /\ pc' = l.pc
    /\ T' = l.T
    /\ problem' = l.problem
    /\ result' = l.result
    /\ error' = l.error

InitInputs ==
    /\ pv_df \in SeqsUpTo(PvLevels, MaxLen)
    /\ price_data \in SeqsUpTo(PriceLevels, MaxLen)
    /\ \E b \in Batteries : bess_power_mw = b[1] /\ bess_capacity_mwh = b[2]
    /\ min_soc_percent \in MinSocPercents
    /\ throughput_cost_eur_mwh \in ThroughputCosts

InitLocals ==
    /\ pc = "unsolved"
    /\ T = 0
    /\ problem = NoProblem
    /\ result = NoResult
    /\ error = NoError
    /\ baseline = NoBaseline
    /\ sweep = NoSweep
    /\ pv_capacity_mw = 0
    /\ mode = "moderate"
    /\ smart_defaults = NoDefaults
    /\ installed_solvers = {"generic"}
    /\ solver = "none"

Init ==
    /\ InitInputs
    /\ caller \in Callers
    /\ InitLocals
    /\ call2 = Absent

\* POST /api/optimize: run_optimization(..., min_soc_percent=, throughput_cost_eur_mwh=)
\* names two keywords the function does not have
ApiOptimize ==
    /\ pc = "unsolved"
    /\ caller = "api"
    /\ pc' = "rejected"
    /\ error' = [type |-> "TypeError", text |-> "unexpected keyword argument"]
    /\ UNCHANGED <<inputs, T, problem, result, others, solver>>

\* baseline_service.calculate_pv_baseline(pv_df, price_data)
CalculateBaseline ==
    /\ pc = "unsolved"
    /\ baseline.status = "none"
    /\ baseline' = CalculatePvBaseline(pv_df, price_data)
    /\ UNCHANGED <<inputs, pc, T, problem, result, error, call2, sweep, sizing,
                   installed_solvers, solver>>

\* the series of the caller across the first steps of a call
CallerSeriesKept ==
    /\ pv_df' = KeptSeries(pv_df, AlignedLength)
    /\ price_data' = KeptSeries(price_data, AlignedLength)
    /\ UNCHANGED <<bess_power_mw, bess_capacity_mwh, min_soc_percent,
                   throughput_cost_eur_mwh, caller>>

Prepare ==
    /\ caller = "direct"
    /\ \E l \in PrepareSteps(Locals) : Become(l)
    /\ CallerSeriesKept
    /\ UNCHANGED <<others, solver>>

PrepareEmpty ==
    /\ caller = "direct"
    /\ \E l \in PrepareEmptySteps(Locals) : Become(l)
    /\ CallerSeriesKept
    /\ UNCHANGED <<others, solver>>

\* the backends a runtime may hold, in the order of preference of the
\* battery spec: the MILP-capable one, the secondary one, any other
Backends == <<"primary", "secondary", "generic">>

\* problem.solve(verbose=False) names no solver: the library runs the one of
\* the installed backends that its own default picks
LibraryDefault(installed) == installed

\* the backend that ran the solve
SolverRuns ==
    IF installed_solvers = {} THEN solver' = "none"
    ELSE \E b \in LibraryDefault(installed_solvers) : solver' = b

\* the instance handed to the solver: its solutions and their objective
Instance == [x \in Feasible |-> Objective(x)]

\* a backend free to return another optimum of the same instance
SolverAnyOptimum(S) == S

\* the backend is deterministic: of the solutions S of an instance it has
\* solved before it returns the one it returned then
SolverRepeats(S) ==
    IF sweep.run = 2 /\ sweep.instance = Instance
    THEN {l \in S : <<l.problem.p_charge, l.problem.p_discharge>> = sweep.x}
    ELSE S

SolveOptimal ==
    /\ \E l \in SolverRepeats(SolveOptimalSteps(Locals)) : Become(l)
    /\ SolverRuns
    /\ UNCHANGED <<inputs, others>>

SolveInfeasible ==
    /\ \E l \in SolveInfeasibleSteps(Locals) : Become(l)
    /\ SolverRuns
    /\ UNCHANGED <<inputs, others>>

SolveInaccurate ==
    /\ \E l \in SolveInaccurateSteps(Locals) : Become(l)
    /\ SolverRuns
    /\ UNCHANGED <<inputs, others>>

SolveRaises ==
    /\ \E l \in SolveRaisesSteps(Locals) : Become(l)
    /\ SolverRuns
    /\ UNCHANGED <<inputs, others>>

Next ==
    \/ ApiOptimize
    \/ CalculateBaseline
    \/ Prepare
    \/ PrepareEmpty
    \/ SolveOptimal
    \/ SolveInfeasible
    \/ SolveInaccurate
    \/ SolveRaises

Spec == Init /\ [][Next]_vars

\* ------------------------------------------------- two calls side by side
\* a second call of run_optimization on the same arguments
TwoCallPrices == {0, 50}
TwoCallBatteries == {<<20, 8>>, <<20, 0 - 8>>}

InitTwo ==
    /\ pv_df \in SeqsUpTo(PvLevels, MaxLen)
    /\ price_data \in SeqsUpTo(TwoCallPrices, MaxLen)
    /\ \E b \in TwoCallBatteries : bess_power_mw = b[1] /\ bess_capacity_mwh = b[2]
    /\ min_soc_percent = 0
    /\ throughput_cost_eur_mwh = 0
    /\ caller = "direct"
    /\ InitLocals
    /\ call2 = NewCall

\* any step of the second call
OtherCallStep ==
    /\ \E l \in PrepareSteps(call2) \cup PrepareEmptySteps(call2)
              \cup SolveOptimalSteps(call2) \cup SolveInfeasibleSteps(call2)
              \cup SolveInaccurateSteps(call2) \cup SolveRaisesSteps(call2) :
          call2' = l
    /\ IF call2.pc = "unsolved" THEN CallerSeriesKept ELSE UNCHANGED inputs
    /\ UNCHANGED <<pc, T, problem, result, error, baseline, sweep, sizing,
                   installed_solvers, solver>>

NextTwo ==
    \/ Prepare
    \/ PrepareEmpty
    \/ SolveOptimal
    \/ SolveInfeasible
    \/ SolveInaccurate
    \/ SolveRaises
    \/ OtherCallStep

SpecTwo == InitTwo /\ [][NextTwo]_vars

\* ------------------------------------------- the same call with another cost
\* energy cycled by a schedule: sum of charge plus sum of discharge
CycledKw(x) == SumSeq([t \in 1..Len(x) |-> x[t][1] + x[t][2]])

\* the caller solves again with only throughput_cost_eur_mwh changed
Resweep ==
    /\ pc = "accepted"
    /\ sweep.run = 1
    /\ \E c \in ThroughputCosts \ {throughput_cost_eur_mwh} :
          throughput_cost_eur_mwh' = c
    /\ sweep' = [run |-> 2, cost |-> throughput_cost_eur_mwh, instance |-> Instance,
                 x |-> <<problem.p_charge, problem.p_discharge>>,
                 cycled |-> SumSeq(problem.p_charge) + SumSeq(problem.p_discharge)]
    /\ Become(NewCall)
    /\ solver' = "none"
    /\ UNCHANGED <<pv_df, price_data, bess_power_mw, bess_capacity_mwh,
                   min_soc_percent, caller, baseline, call2, sizing,
                   installed_solvers>>

\* the first solve is a call on the function itself
SweepPrices == {0 - 20, 0, 50}

InitSweep ==
    /\ pv_df \in SeqsUpTo(PvLevels, MaxLen)
    /\ price_data \in SeqsUpTo(SweepPrices, MaxLen)
    /\ \E b \in Batteries : bess_power_mw = b[1] /\ bess_capacity_mwh = b[2]
    /\ throughput_cost_eur_mwh \in ThroughputCosts
    /\ min_soc_percent = 0
    /\ caller = "direct"
    /\ InitLocals
    /\ call2 = Absent

NextSweep ==
    \/ Prepare
    \/ PrepareEmpty
    \/ SolveOptimal
    \/ SolveInfeasible
    \/ SolveInaccurate
    \/ SolveRaises
    \/ Resweep

SpecSweep == InitSweep /\ [][NextSweep]_vars

\* --------------------------------------------------- runtimes with solvers
SolverPrices == {0 - 20, 50}
SolverBatteries == {<<20, 8>>, <<20, 0 - 8>>}

\* a call in a runtime that holds any of the backends
InitSolver ==
    /\ pv_df \in SeqsUpTo(PvLevels, MaxLen)
    /\ price_data \in SeqsUpTo(SolverPrices, MaxLen)
    /\ \E b \in SolverBatteries : bess_power_mw = b[1] /\ bess_capacity_mwh = b[2]
    /\ min_soc_percent = 0
    /\ throughput_cost_eur_mwh = 0
    /\ caller = "direct"
    /\ pc = "unsolved"
    /\ T = 0
    /\ problem = NoProblem
    /\ result = NoResult
    /\ error = NoError
    /\ baseline = NoBaseline
    /\ sweep = NoSweep
    /\ call2 = Absent
    /\ pv_capacity_mw = 0
    /\ mode = "moderate"
    /\ smart_defaults = NoDefaults
    /\ installed_solvers \in (SUBSET {Backends[i] : i \in 1..Len(Backends)}) \ {{}}
    /\ solver = "none"

NextSolver ==
    \/ Prepare
    \/ PrepareEmpty
    \/ SolveOptimal
    \/ SolveInfeasible
    \/ SolveInaccurate
    \/ SolveRaises

SpecSolver == InitSolver /\ [][NextSolver]_vars

\* ------------------------------------------------------- sizing a battery
InitSizing ==
    /\ pv_df = <<>>
    /\ price_data = <<>>
    /\ bess_power_mw = 0
    /\ bess_capacity_mwh = 0
    /\ min_soc_percent = 0
    /\ throughput_cost_eur_mwh = 0
    /\ caller = "direct"
    /\ pc = "unsolved"
    /\ T = 0
    /\ problem = NoProblem
    /\ result = NoResult
    /\ error = NoError
    /\ baseline = NoBaseline
    /\ sweep = NoSweep
    /\ call2 = Absent
    /\ pv_capacity_mw \in PvCapacities
    /\ mode \in Modes
    /\ smart_defaults = NoDefaults
    /\ installed_solvers = {"generic"}
    /\ solver = "none"

\* auto_sizing_service.calculate_smart_defaults(pv_capacity_mw, mode)
CalculateSmartDefaults ==
    /\ smart_defaults = NoDefaults
    /\ smart_defaults' = CalculateSmartDefaultsOf(pv_capacity_mw, mode)
    /\ UNCHANGED <<inputs, pc, T, problem, result, error, baseline, call2, sweep,
                   pv_capacity_mw, mode, installed_solvers, solver>>

NextSizing == CalculateSmartDefaults

SpecSizing == InitSizing /\ [][NextSizing]_vars

\* ================================================================ properties
Accepted == pc = "accepted"
Hours == 1..T

\* the returned schedule, hour by hour
Returned == [t \in Hours |-> <<problem.p_charge[t], problem.p_discharge[t]>>]

\* net profit of the battery spec: market revenue minus the degradation penalty
NetProfit(x) == Revenue(GridOf(x)) - throughput_cost_eur_mwh * CycledKw(x)

\* the reserved minimum and the capacity, in hundredths of a kWh
MinSoc100 == min_soc_percent * bess_capacity_mwh
Capacity100 == 100 * bess_capacity_mwh

\* the schedules the battery spec allows: power limits, state of charge
\* between the reserved minimum and the capacity, starting at the reserved
\* minimum, and never charging and discharging in the same hour
RECURSIVE ExclusiveSchedules(_, _)
ExclusiveSchedules(t, s100) ==
    IF t > T THEN {<<>>}
    ELSE UNION {
           {<<f>> \o rest :
               rest \in ExclusiveSchedules(t + 1, s100 + 100 * Stored(f[1]) - 100 * Drawn(f[2]))}
           : f \in {g \in ChargeLevels \X DischargeLevels :
                      /\ g[1] <= bess_power_mw /\ g[2] <= bess_power_mw
                      /\ (g[1] = 0 \/ g[2] = 0)
                      /\ s100 + 100 * Stored(g[1]) - 100 * Drawn(g[2]) >= MinSoc100
                      /\ s100 + 100 * Stored(g[1]) - 100 * Drawn(g[2]) <= Capacity100}}

\* C1: in every returned schedule no hour has both a charge and a discharge
\* (the grid step of 1 kW is above the 1e-3 tolerance).
C1_NoSimultaneousFlow ==
    Accepted => \A t \in Hours :
        ~(result.bess_charge_kw[t] > 0 /\ result.bess_discharge_kw[t] > 0)

\* C2: no schedule that the battery spec allows has a strictly higher net
\* profit (revenue minus throughput cost) than the returned schedule.
C2_GloballyOptimal ==
    Accepted => \A y \in ExclusiveSchedules(1, MinSoc100) :
        NetProfit(y) <= NetProfit(Returned)

\* C3: every state of charge of the solution, soc[0..T], lies between the
\* reserved minimum min_soc_fraction * capacity and the capacity.
C3_SocWithinLimits ==
    Accepted => \A i \in 1..(T + 1) :
        /\ 100 * problem.soc[i] >= MinSoc100
        /\ problem.soc[i] <= bess_capacity_mwh

\* C4: the initial state of charge equals the reserved minimum exactly.
C4_InitialSocIsMinimum ==
    Accepted => 100 * problem.soc[1] = MinSoc100

C6_GridBalance ==
    Accepted => \A t \in Hours :
        /\ problem.p_grid[t] = pv_df[t] + problem.p_discharge[t] - problem.p_charge[t]
        /\ result.net_grid_kw[t] =
              pv_df[t] + result.bess_discharge_kw[t] - result.bess_charge_kw[t]

C6_Witness ==
    /\ Accepted
    /\ \E t \in Hours : pv_df[t] > 0 /\ result.bess_charge_kw[t] > 0
                        /\ result.net_grid_kw[t] > 0
    /\ \E t \in Hours : pv_df[t] = 0 /\ result.bess_charge_kw[t] > 0
                        /\ result.net_grid_kw[t] < 0

\* C7: 0 <= charge[t] <= power limit and 0 <= discharge[t] <= power limit.
C7_PowerLimits ==
    Accepted => \A t \in Hours :
        /\ 0 <= result.bess_charge_kw[t] /\ result.bess_charge_kw[t] <= bess_power_mw
        /\ 0 <= result.bess_discharge_kw[t] /\ result.bess_discharge_kw[t] <= bess_power_mw

C7_Witness ==
    /\ Accepted
    /\ bess_power_mw > 0
    /\ bess_capacity_mwh > Stored(bess_power_mw)
    /\ \E t \in Hours : result.bess_charge_kw[t] = bess_power_mw

\* C8: the objective value of the solve equals the market revenue minus
\* throughput_cost times the energy cycled (charge + discharge).
C8_ObjectiveIsNetProfit ==
    Accepted =>
        problem.value =
            SumSeq([t \in Hours |-> price_data[t] * problem.p_grid[t]])
            - throughput_cost_eur_mwh * (SumSeq(problem.p_charge) + SumSeq(problem.p_discharge))

\* C9: with capacity 0 the call does not fail on the model and the returned
\* schedule has no charge and no discharge, so grid[t] = generation[t].
C9_ZeroCapacity ==
    (caller = "direct" /\ bess_capacity_mwh = 0) =>
        /\ problem.status # "infeasible"
        /\ Accepted => \A t \in Hours :
              /\ result.bess_charge_kw[t] = 0
              /\ result.bess_discharge_kw[t] = 0
              /\ result.net_grid_kw[t] = pv_df[t]

FlatPrices == \A t \in Hours : price_data[t] = price_data[1]

BaselineRevenue == SumSeq([t \in Hours |-> pv_df[t] * price_data[t]])

NoFlowAndBaselineRevenue ==
    /\ \A t \in Hours : result.bess_charge_kw[t] = 0 /\ result.bess_discharge_kw[t] = 0
    /\ result.total_revenue = BaselineRevenue
    /\ result.total_revenue_eur = RoundCents(BaselineRevenue)

\* C10 as stated: with the same price in every hour, whatever it is, the
\* schedule has no charge and no discharge and the revenue is
\* sum generation[t] * price[t].
C10_FlatAnyPrice == (Accepted /\ FlatPrices) => NoFlowAndBaselineRevenue

\* C10 amended: with the same positive price in every hour the schedule has
\* no charge and no discharge and the revenue is sum generation[t] * price[t].
C10_FlatPositivePrice ==
    (Accepted /\ FlatPrices /\ price_data[1] > 0) => NoFlowAndBaselineRevenue

C10_Witness ==
    /\ Accepted
    /\ T >= 2
    /\ FlatPrices
    /\ price_data[1] > 0
    /\ bess_power_mw > 0
    /\ bess_capacity_mwh > 0
    /\ result.total_revenue > 0
    /\ \A t \in Hours : result.bess_charge_kw[t] = 0 /\ result.bess_discharge_kw[t] = 0

\* the call was made on the function itself and has returned or raised
Direct == caller = "direct"
Finished == pc \in {"accepted", "rejected"}

\* energy cycled by the solve at hand
Cycled == SumSeq(problem.p_charge) + SumSeq(problem.p_discharge)

C12_NegativeRejectedBeforeSolve ==
    (Direct /\ (bess_power_mw < 0 \/ bess_capacity_mwh < 0)) =>
        /\ pc \in {"unsolved", "rejected"}
        /\ problem.status = "none"
        /\ pc = "rejected" => error.type = "ValidationError"

C14_PositionalTruncation ==
    Accepted =>
        /\ T = Min(Len(pv_df), Len(price_data))
        /\ Len(result.pv_power_kw) = T
        /\ Len(result.price_eur_mwh) = T
        /\ Len(result.net_grid_kw) = T
        /\ \A t \in Hours :
              /\ result.pv_power_kw[t] = pv_df[t]
              /\ result.price_eur_mwh[t] = price_data[t]
              /\ result.net_grid_kw[t] =
                    pv_df[t] + result.bess_discharge_kw[t] - result.bess_charge_kw[t]
        /\ result.total_revenue =
              SumSeq([t \in Hours |-> price_data[t] * result.net_grid_kw[t]])

C14_Witness ==
    /\ Accepted
    /\ Len(pv_df) > T
    /\ pv_df[Len(pv_df)] # pv_df[T]
    /\ result.pv_power_kw[T] = pv_df[T]
    /\ result.total_revenue # 0

\* C15: a solve that ends with status optimal or optimal_inaccurate is
\* accepted: the call returns a result with that status and raises nothing.
C15_InaccurateAccepted ==
    problem.status \in {"optimal", "optimal_inaccurate"} =>
        /\ pc = "accepted"
        /\ result.optimization_status = problem.status
        /\ error = NoError

\* the call went into the solver and did not come back accepted
SolveFailed == Direct /\ pc = "rejected" /\ T > 0

\* C16: whenever the solve does not end in an accepted status the call raises
\* an error whose text is the raw status, or the text of the exception of the
\* backend, and returns no schedule and no metrics; only an accepted solve
\* returns anything.
C16_AllOrNothing ==
    /\ SolveFailed =>
          /\ result = NoResult
          /\ error.type = "ValueError"
          /\ problem.status # "none" => error.text = problem.status
          /\ problem.status = "none" => error.text = SolverExceptionText
    /\ result # NoResult => (pc = "accepted" /\ problem.status = "optimal")

C16_Witness ==
    /\ SolveFailed
    /\ problem.status = "infeasible"
    /\ error.text = "infeasible"
    /\ result = NoResult

\* what a call on these arguments returns when it runs alone
AloneResults == {Extract(Solved(x)) : x \in OptimalFor(AlignedLength)}

\* C17: however the steps of two calls interleave, each call that returns
\* returns a result it could return alone, a call fails on the model only if
\* it does alone, and no step changes the caller's pv_df or price_data.
C17_CallsIndependent ==
    /\ [](/\ pc = "accepted" => result \in AloneResults
          /\ call2.pc = "accepted" => call2.result \in AloneResults
          /\ problem.status = "infeasible" => FeasibleFor(AlignedLength) = {}
          /\ call2.problem.status = "infeasible" => FeasibleFor(AlignedLength) = {})
    /\ [][pv_df' = pv_df /\ price_data' = price_data]_vars

C17_Witness ==
    /\ pc = "solving"
    /\ call2.pc = "solving"
    /\ Len(pv_df) > AlignedLength
    /\ Cardinality(AloneResults) > 1

\* C18: for generation and price series of the same length and a battery
\* with non-negative power and capacity, the total_revenue_eur of
\* run_optimization is at least the total_revenue_eur of calculate_pv_baseline.
C18_RevenueAtLeastBaseline ==
    (/\ Accepted
     /\ baseline.status = "ok"
     /\ Len(pv_df) = Len(price_data)
     /\ bess_power_mw >= 0
     /\ bess_capacity_mwh >= 0) =>
        result.total_revenue_eur >= baseline.total_revenue_eur

C18_Witness ==
    /\ Accepted
    /\ baseline.status = "ok"
    /\ Len(pv_df) = Len(price_data)
    /\ \E t \in Hours : result.net_grid_kw[t] < 0 /\ price_data[t] < 0
    /\ result.total_revenue_eur > baseline.total_revenue_eur

\* hours in which the charge or the discharge exceeds 0.1 kW
ActiveHours ==
    {t \in Hours : 10 * result.bess_charge_kw[t] > 1 \/ 10 * result.bess_discharge_kw[t] > 1}

\* C19: battery_utilization_percent is the share of the hours in which the
\* charge or the discharge exceeds 0.1 kW, in percent with one decimal, and
\* lies between 0 and 100.
C19_UtilizationIsShareOfHours ==
    Accepted =>
        /\ result.battery_utilization_percent = RoundRatio(1000 * Cardinality(ActiveHours), T)
        /\ 0 <= result.battery_utilization_percent
        /\ result.battery_utilization_percent <= 1000

\* revenue of the discharging hours minus cost of the charging hours
ExactArbitrage ==
    SumSeq([t \in Hours |-> IF 10 * result.bess_discharge_kw[t] > 1
                             THEN result.bess_discharge_kw[t] * price_data[t] ELSE 0])
    - SumSeq([t \in Hours |-> IF 10 * result.bess_charge_kw[t] > 1
                               THEN result.bess_charge_kw[t] * price_data[t] ELSE 0])

\* C20: the reported arbitrage revenue is the sum over the discharging hours
\* of discharge times price minus the sum over the charging hours of charge
\* times price, to the cent.
C20_ArbitrageExact ==
    Accepted => result.estimated_arbitrage_revenue = RoundCents(ExactArbitrage)

\* hours of the horizon with a negative price
NegativeHours == {t \in Hours : price_data[t] < 0}

\* charge times price, hour by hour, over the hours with a negative price
ChargeTimesNegPrice ==
    SumSeq([t \in Hours |-> IF price_data[t] < 0
                             THEN result.bess_charge_kw[t] * price_data[t] ELSE 0])

\* C21: the reported negative-price savings are the absolute value of the sum
\* over the hours with price < 0 of charge times the price of that hour, to
\* the cent, and 0 when no hour has a negative price.
C21_SavingsPerHourPrice ==
    Accepted =>
        /\ result.estimated_savings = RoundCents(Abs(ChargeTimesNegPrice))
        /\ NegativeHours = {} => result.estimated_savings = 0

\* the hours with a negative price form one block of consecutive hours
NegativeBlock ==
    /\ NegativeHours # {}
    /\ \A t \in NegativeHours : \A u \in NegativeHours :
          \A v \in Hours : (t < v /\ v < u) => v \in NegativeHours

\* C22: with one block of negative-price hours and a battery of positive
\* power and capacity (empty at the start, so with headroom), the schedule
\* charges in that block, in some hour of it up to the power limit or up to
\* the capacity, and the reported savings are strictly positive.
C22_ChargesOnNegativePrices ==
    (Accepted /\ NegativeBlock /\ bess_power_mw > 0 /\ bess_capacity_mwh > 0) =>
        /\ result.energy_charged_during_neg_prices_kwh > 0
        /\ \E t \in NegativeHours :
              \/ result.bess_charge_kw[t] = bess_power_mw
              \/ problem.soc[t + 1] = bess_capacity_mwh
        /\ result.negative_price_hours = Cardinality(NegativeHours)
        /\ result.estimated_savings > 0

C22_Witness ==
    /\ Accepted
    /\ Cardinality(NegativeHours) >= 2
    /\ NegativeBlock
    /\ \E t \in Hours : pv_df[t] > 0
    /\ bess_power_mw > 0
    /\ bess_capacity_mwh > 0
    /\ result.estimated_savings > 0

\* the answer of POST /api/optimize: the result, or HTTP 500 for any exception
HttpStatus ==
    IF caller # "api" \/ ~Finished THEN 0
    ELSE IF pc = "accepted" THEN 200 ELSE 500

\* C23: POST /api/optimize, once the price and generation series have been
\* fetched, hands the four battery parameters to run_optimization and answers
\* HTTP 500 only when the solve fails: an error of the call is the error of a
\* solve (or of preparing one), and the solver has been reached unless the
\* horizon is empty.
C23_ApiForwardsParameters ==
    HttpStatus = 500 =>
        /\ error.type = "ValueError"
        /\ AlignedLength > 0 => T = AlignedLength

\* C24: calculate_pv_baseline on a generation profile that is 0 in every
\* hour, with price data for those hours, returns total_revenue_eur = 0 and
\* total_generation_mwh = 0 and does not fail.
C24_ZeroGenerationBaseline ==
    (/\ baseline.status # "none"
     /\ Len(pv_df) > 0
     /\ Len(price_data) > 0
     /\ \A t \in 1..Len(pv_df) : pv_df[t] = 0) =>
        /\ baseline.status = "ok"
        /\ baseline.total_revenue_eur = 0
        /\ baseline.total_generation_mwh = 0

\* calculate_smart_defaults has returned
Sized == smart_defaults # NoDefaults

\* C25: in mode 'conservative' the recommended power is 25% of the PV
\* capacity (100 * power = 25 * capacity, here in hundredths against tenths)
\* and the duration is 2 hours.
C25_ConservativeQuarter ==
    (Sized /\ Lower(mode) = "conservative") =>
        /\ 2 * smart_defaults.power_mw = 5 * pv_capacity_mw
        /\ smart_defaults.duration_hours = 2

\* C26: in mode 'moderate', for every PV capacity, the recommended power is
\* 0.4 times the PV capacity, the duration is 4 hours and the recommended
\* capacity is the recommended power times the duration.
C26_ModerateLinear ==
    (Sized /\ mode = "moderate") =>
        /\ smart_defaults.power_mw = 4 * pv_capacity_mw
        /\ smart_defaults.duration_hours = 4
        /\ smart_defaults.capacity_mwh = smart_defaults.power_mw * smart_defaults.duration_hours

\* C27: a call goes UNSOLVED -> SOLVING -> ACCEPTED or REJECTED once: every
\* step out of SOLVING is the one solve and ends the call, a call rejected
\* before the solve never reaches the solver, and an ended call changes
\* nothing any more (no retry).
C27_SolveOnce ==
    [][/\ pc = "unsolved" => pc' \in {"unsolved", "solving", "rejected"}
       /\ pc = "unsolved" => problem' = NoProblem
       /\ pc = "solving" =>
             \/ pc' \in {"accepted", "rejected"}
             \/ <<pc, T, problem, result, error>>' = <<pc, T, problem, result, error>>
       /\ pc \in {"accepted", "rejected"} =>
             <<pc, T, problem, result, error>>' = <<pc, T, problem, result, error>>]_vars

C27_Witness ==
    /\ pc = "rejected"
    /\ T > 0
    /\ problem.status = "infeasible"
    /\ baseline.status # "none"

\* place of a backend in the order of preference
Rank(b) == CHOOSE i \in 1..Len(Backends) : Backends[i] = b

\* C28: the solve runs on the first backend, in the fixed order primary,
\* secondary, generic, that the runtime holds: no backend ahead of the one
\* that ran is present.
C28_SolverPriority ==
    solver # "none" =>
        /\ solver \in installed_solvers
        /\ \A b \in installed_solvers : Rank(solver) <= Rank(b)

\* charge and discharge of the hours 1..t
ChargedUpTo(t) == SumSeq(SubSeq(problem.p_charge, 1, t))
DischargedUpTo(t) == SumSeq(SubSeq(problem.p_discharge, 1, t))

\* C29: for every prefix of hours the energy drawn from the store,
\* sum discharge / 0.9, is at most soc[0] + sum 0.9 * charge (times 90:
\* 100 * discharge <= 90 * soc[0] + 81 * charge).
C29_EnergyCausality ==
    Accepted => \A t \in Hours :
        100 * DischargedUpTo(t) <= 90 * problem.soc[1] + 81 * ChargedUpTo(t)

C29_Witness ==
    /\ Accepted
    /\ T >= 2
    /\ problem.p_discharge[T] > 0
    /\ problem.p_charge[T] = 0
    /\ 100 * (DischargedUpTo(T) + 9) > 90 * problem.soc[1] + 81 * ChargedUpTo(T)

\* C30: in every returned hour net_revenue = price * grid, whatever the
\* signs of the price and of the grid power, so the total revenue before
\* rounding is sum price[t] * grid[t], the value the solve maximised.
C30_NetRevenueIsPriceTimesGrid ==
    Accepted =>
        /\ \A t \in Hours :
              result.net_revenue[t] = price_data[t] * result.net_grid_kw[t]
        /\ result.total_revenue =
              SumSeq([t \in Hours |-> price_data[t] * problem.p_grid[t]])
        /\ result.total_revenue = problem.value

C30_Witness ==
    /\ Accepted
    /\ \E t \in Hours : result.net_grid_kw[t] < 0 /\ price_data[t] < 0
                        /\ result.net_revenue[t] > 0
    /\ \E t \in Hours : result.net_grid_kw[t] > 0 /\ price_data[t] < 0
                        /\ result.net_revenue[t] < 0

TypeOK ==
    /\ pc \in {"unsolved", "solving", "accepted", "rejected"}
    /\ T \in 0..MaxLen
    /\ call2.pc \in {"absent", "unsolved", "solving", "accepted", "rejected"}
    /\ sweep.run \in {1, 2}
    /\ baseline.status \in {"none", "ok", "ValueError", "ZeroDivisionError"}
====
